---- MODULE Spec2Model ----
(***************************************************************************)
(* Model of the detective-h core: the BLAKE2b engine (blake2b.c), the     *)
(* BLAKE3 tree hasher (blake3.c) and the batch matching layer             *)
(* (detective_core.c).                                                    *)
(*                                                                         *)
(* Machine words are kept at their width.  A 32-bit word is a pair of     *)
(* 16-bit limbs <<lo, hi>>, a 64-bit word is four 16-bit limbs, least     *)
(* significant first; byte arrays are sequences of 0..255.                *)
(***************************************************************************)
EXTENDS Integers, Sequences, FiniteSets, TLC

(***************************************************************************)
(* Bounds of the model                                                     *)
(***************************************************************************)
\* total number of bytes fed to one tree hasher
MaxFed3 == 2112

\* total number of bytes fed to one blake2b_state
MaxFed2 == 260

\* successful blake2b_final calls on one blake2b_state between two inits
MaxFinals2 == 1

\* number of entries of a candidate array
MaxDb == 3

(***************************************************************************)
(* Word arithmetic                                                         *)
(***************************************************************************)
RECURSIVE XorBits(_, _, _)
XorBits(a, b, n) ==
  IF n = 0 THEN 0
  ELSE ((a + b) % 2) + 2 * XorBits(a \div 2, b \div 2, n - 1)

\* byte ^ byte
Xor8 == [a \in 0..255 |-> [b \in 0..255 |-> XorBits(a, b, 8)]]

Xor16(a, b) == Xor8[a % 256][b % 256] + 256 * Xor8[a \div 256][b \div 256]

Pow2(n) == 2 ^ n

\* uint32_t ^ uint32_t
Xor32(x, y) == <<Xor16(x[1], y[1]), Xor16(x[2], y[2])>>

\* uint32_t + uint32_t, wrapping at 2^32
Add32(x, y) ==
  LET s == x[1] + y[1]
  IN <<s % 65536, (x[2] + y[2] + (s \div 65536)) % 65536>>

W32(n) == <<n % 65536, (n \div 65536) % 65536>>

Zero32 == <<0, 0>>

\* the four bytes of a word, least significant first
Store32(w) == <<w[1] % 256, w[1] \div 256, w[2] % 256, w[2] \div 256>>

\* the word whose four bytes are bytes[off+1 .. off+4] (off counts from 0)
Load32(bytes, off) ==
  <<bytes[off + 1] + 256 * bytes[off + 2], bytes[off + 3] + 256 * bytes[off + 4]>>

\* F applied to the value of v.  v is computed once, before F is applied, so
\* a result that is used several times is not computed several times, and a
\* long chain of compressions is evaluated step by step.
Then(v, F(_)) == CHOOSE r \in {F(x) : x \in {v}} : TRUE

\* uint8_t | uint8_t
RECURSIVE OrBits(_, _, _)
OrBits(a, b, n) ==
  IF n = 0 THEN 0
  ELSE (IF (a % 2) + (b % 2) > 0 THEN 1 ELSE 0) + 2 * OrBits(a \div 2, b \div 2, n - 1)

Or8(a, b) == Then(<<a, b>>, LAMBDA p : OrBits(p[1], p[2], 8))

(***************************************************************************)
(* BLAKE3 (blake3.h, blake3.c)                                             *)
(* C arrays are tuples here: element i of the C array is element i + 1.    *)
(***************************************************************************)
BLAKE3_BLOCK_LEN == 64
BLAKE3_CHUNK_LEN == 1024
BLAKE3_MAX_DEPTH == 54

\* 32-bit words as <<low 16 bits, high 16 bits>>
blake3_IV ==
  <<
    <<58983, 27145>>,
    <<44677, 47975>>,
    <<62322, 15470>>,
    <<62778, 42319>>,
    <<21119, 20750>>,
    <<26764, 39685>>,
    <<55723, 8067>>,
    <<52505, 23520>>
  >>

blake3_msg_schedule ==
  <<
    <<0, 1, 2, 3, 4, 5, 6, 7, 8, 9, 10, 11, 12, 13, 14, 15>>,
    <<2, 6, 3, 10, 7, 0, 4, 13, 1, 11, 12, 5, 9, 14, 15, 8>>,
    <<3, 4, 10, 12, 13, 2, 7, 14, 6, 5, 9, 0, 11, 15, 8, 1>>,
    <<10, 7, 12, 9, 14, 3, 13, 15, 4, 0, 11, 2, 5, 8, 1, 6>>,
    <<12, 13, 9, 11, 15, 10, 14, 8, 7, 2, 5, 3, 0, 1, 6, 4>>,
    <<9, 14, 11, 5, 8, 12, 15, 1, 13, 3, 0, 10, 2, 6, 4, 7>>,
    <<11, 15, 5, 0, 1, 9, 8, 6, 14, 10, 2, 12, 3, 4, 7, 13>>
  >>

CHUNK_START == 1
CHUNK_END == 2
PARENT == 4
ROOT == 8

rotr32(w, c) ==
  Then(w, LAMBDA v :
    LET q  == c \div 16
        r  == c % 16
        lo == IF q = 0 THEN v[1] ELSE v[2]
        hi == IF q = 0 THEN v[2] ELSE v[1]
        p  == Pow2(r)
        m  == Pow2(16 - r)
    IN <<((lo \div p) + (hi % p) * m) % 65536, ((hi \div p) + (lo % p) * m) % 65536>>)

\* a, b, c, d are the C indices 0..15; one Then per statement of g
g(state, a, b, c, d, x, y) ==
  Then(Add32(Add32(state[a + 1], state[b + 1]), x), LAMBDA a1 :
  Then(rotr32(Xor32(state[d + 1], a1), 16), LAMBDA d1 :
  Then(Add32(state[c + 1], d1), LAMBDA c1 :
  Then(rotr32(Xor32(state[b + 1], c1), 12), LAMBDA b1 :
  Then(Add32(Add32(a1, b1), y), LAMBDA a2 :
  Then(rotr32(Xor32(d1, a2), 8), LAMBDA d2 :
  Then(Add32(c1, d2), LAMBDA c2 :
  Then(rotr32(Xor32(b1, c2), 7), LAMBDA b2 :
    [state EXCEPT ![a + 1] = a2, ![b + 1] = b2, ![c + 1] = c2, ![d + 1] = d2]))))))))

\* state and msg are values already computed
round_fn(state, msg, round) ==
  LET s == blake3_msg_schedule[round + 1]
  IN Then(g(state, 0, 4, 8, 12, msg[s[1] + 1], msg[s[2] + 1]), LAMBDA s1 :
     Then(g(s1, 1, 5, 9, 13, msg[s[3] + 1], msg[s[4] + 1]), LAMBDA s2 :
     Then(g(s2, 2, 6, 10, 14, msg[s[5] + 1], msg[s[6] + 1]), LAMBDA s3 :
     Then(g(s3, 3, 7, 11, 15, msg[s[7] + 1], msg[s[8] + 1]), LAMBDA s4 :
     Then(g(s4, 0, 5, 10, 15, msg[s[9] + 1], msg[s[10] + 1]), LAMBDA s5 :
     Then(g(s5, 1, 6, 11, 12, msg[s[11] + 1], msg[s[12] + 1]), LAMBDA s6 :
     Then(g(s6, 2, 7, 8, 13, msg[s[13] + 1], msg[s[14] + 1]), LAMBDA s7 :
       g(s7, 3, 4, 9, 14, msg[s[15] + 1], msg[s[16] + 1]))))))))

\* for (round = 0; round < 7; round++) round_fn(state, block_words, round)
RECURSIVE Rounds3(_, _, _)
Rounds3(state, msg, round) ==
  IF round = 7 THEN state
  ELSE Then(round_fn(state, msg, round), LAMBDA s : Rounds3(s, msg, round + 1))

\* The 16-word state after the 7 rounds.  block is the 64 bytes the
\* compression reads; counter is below 2^31 in every call of the model.
CompressState3(cv, block, block_len, counter, flags) ==
  Then(<<cv[1], cv[2], cv[3], cv[4], cv[5], cv[6], cv[7], cv[8],
         blake3_IV[1], blake3_IV[2], blake3_IV[3], blake3_IV[4],
         W32(counter), W32((counter \div 65536) \div 65536),
         W32(block_len), W32(flags)>>, LAMBDA state :
  Then(block, LAMBDA bl :
  Then(<<Load32(bl, 0), Load32(bl, 4), Load32(bl, 8), Load32(bl, 12),
         Load32(bl, 16), Load32(bl, 20), Load32(bl, 24), Load32(bl, 28),
         Load32(bl, 32), Load32(bl, 36), Load32(bl, 40), Load32(bl, 44),
         Load32(bl, 48), Load32(bl, 52), Load32(bl, 56), Load32(bl, 60)>>,
       LAMBDA block_words : Rounds3(state, block_words, 0))))

\* cv[i] = state[i] ^ state[i + 8]: the new chaining value
blake3_compress_in_place(cv, block, block_len, counter, flags) ==
  Then(CompressState3(cv, block, block_len, counter, flags),
       LAMBDA state : <<Xor32(state[1], state[9]), Xor32(state[2], state[10]),
                        Xor32(state[3], state[11]), Xor32(state[4], state[12]),
                        Xor32(state[5], state[13]), Xor32(state[6], state[14]),
                        Xor32(state[7], state[15]), Xor32(state[8], state[16])>>)

\* word = state[i] ^ state[i % 8] for the C index i = k - 1
XofWord(state, k) == Xor32(state[k], state[((k - 1) % 8) + 1])

\* the bytes of a tuple of words, each word least significant byte first
WordsToBytes(words) ==
  Then(words, LAMBDA ws :
    [k \in 1..(4 * Len(ws)) |-> Store32(ws[((k - 1) \div 4) + 1])[((k - 1) % 4) + 1]])

\* the 64 bytes written to out
blake3_compress_xof(cv, block, block_len, counter, flags) ==
  Then(CompressState3(cv, block, block_len, counter, flags),
       LAMBDA state : WordsToBytes([k \in 1..16 |-> XofWord(state, k)]))

\* the 8 words whose bytes are bytes[1..32] (least significant byte first)
BytesToWords8(bytes) ==
  Then(bytes, LAMBDA bs :
    <<Load32(bs, 0), Load32(bs, 4), Load32(bs, 8), Load32(bs, 12),
      Load32(bs, 16), Load32(bs, 20), Load32(bs, 24), Load32(bs, 28)>>)

\* a run of n zero bytes
Zeros(n) == [k \in 1..n |-> 0]

\* the chunk state chunk_state_init leaves
chunk_state_init(key, flags) ==
  [cv |-> key, chunk_counter |-> 0, buf |-> Zeros(BLAKE3_BLOCK_LEN), buf_len |-> 0,
   blocks_compressed |-> 0, flags |-> flags]

\* the iteration with the compression of a full buffer left uncounted
ChunkStep_uncounted(self, input) ==
  Then(IF self.buf_len = BLAKE3_BLOCK_LEN
       THEN LET block_flags ==
                  Or8(self.flags, IF self.blocks_compressed = 0 THEN CHUNK_START ELSE 0)
            IN [self EXCEPT
                  !.cv = blake3_compress_in_place(self.cv, self.buf, BLAKE3_BLOCK_LEN,
                                                  self.chunk_counter, block_flags),
                  !.buf_len = 0]
       ELSE self, LAMBDA s1 :
    LET want == BLAKE3_BLOCK_LEN - s1.buf_len
        take == IF Len(input) < want THEN Len(input) ELSE want
    IN [self |-> [s1 EXCEPT
                    !.buf = SubSeq(@, 1, s1.buf_len) \o SubSeq(input, 1, take)
                              \o SubSeq(@, s1.buf_len + take + 1, BLAKE3_BLOCK_LEN),
                    !.buf_len = @ + take],
        rest |-> SubSeq(input, take + 1, Len(input))])

\* One iteration of the while loop of chunk_state_update, on values already
\* computed: the chunk state after it and the input that is left.
ChunkStep(self, input) ==
  Then(IF self.buf_len = BLAKE3_BLOCK_LEN
       THEN LET block_flags ==
                  Or8(self.flags, IF self.blocks_compressed = 0 THEN CHUNK_START ELSE 0)
            IN [self EXCEPT
                  !.cv = blake3_compress_in_place(self.cv, self.buf, BLAKE3_BLOCK_LEN,
                                                  self.chunk_counter, block_flags),
                  !.blocks_compressed = (@ + 1) % 256,
                  !.buf_len = 0]
       ELSE self, LAMBDA s1 :
    LET want == BLAKE3_BLOCK_LEN - s1.buf_len
        take == IF Len(input) < want THEN Len(input) ELSE want
    IN [self |-> [s1 EXCEPT
                    !.buf = SubSeq(@, 1, s1.buf_len) \o SubSeq(input, 1, take)
                              \o SubSeq(@, s1.buf_len + take + 1, BLAKE3_BLOCK_LEN),
                    !.buf_len = @ + take],
        rest |-> SubSeq(input, take + 1, Len(input))])

\* while (input_len > 0) { ... } on values already computed
RECURSIVE ChunkLoop(_, _)
ChunkLoop(self, input) ==
  IF Len(input) = 0 THEN self
  ELSE Then(ChunkStep(self, input), LAMBDA r : ChunkLoop(r.self, r.rest))

\* the chunk state after chunk_state_update(self, input, Len(input))
chunk_state_update(self, input) ==
  Then(<<self, input>>, LAMBDA p : ChunkLoop(p[1], p[2]))

\* the 64 bytes chunk_state_output writes
chunk_state_output(self) ==
  LET block_flags ==
        Or8(Or8(self.flags, IF self.blocks_compressed = 0 THEN CHUNK_START ELSE 0), CHUNK_END)
  IN blake3_compress_xof(self.cv, self.buf, self.buf_len, self.chunk_counter, block_flags)

\* the 64 bytes parent_output writes
parent_output(block, key, flags) ==
  blake3_compress_xof(key, block, BLAKE3_BLOCK_LEN, 0, Or8(flags, PARENT))

\* The 8 words parent_cv stores in out.  parent_output writes 64 bytes to the
\* 32-byte local cv_bytes: the words come from the first 32, the other 32 land
\* past the array (ParentCvOverrun).
parent_cv(block, key, flags) == BytesToWords8(parent_output(block, key, flags))

\* bytes parent_output writes past the end of cv_bytes[32] in each parent_cv call
ParentCvOverrun == 64 - 32

\* the 32 bytes at &cv_stack[slot * 8]; unwritten is what a read outside the
\* written part of the array yields
StackBytes(self, slot, unwritten) ==
  IF slot \in DOMAIN self.cv_stack THEN WordsToBytes(self.cv_stack[slot]) ELSE unwritten

\* while (total_chunks & 1) { ... }, then the push, on values already
\* computed.  pop_lens collects cv_stack_len at the start of each iteration.
RECURSIVE add_chunk_cv_loop(_, _, _, _, _)
add_chunk_cv_loop(self, new_cv, total_chunks, unwritten, pop_lens) ==
  IF total_chunks % 2 = 1
  THEN LET parent_block ==
             StackBytes(self, self.cv_stack_len - 1, unwritten) \o WordsToBytes(new_cv)
       IN Then(parent_cv(parent_block, self.key, self.chunk.flags), LAMBDA cv :
          Then([self EXCEPT !.cv_stack_len = (@ + 255) % 256], LAMBDA s :
          Then(Append(pop_lens, self.cv_stack_len), LAMBDA lens :
            add_chunk_cv_loop(s, cv, total_chunks \div 2, unwritten, lens))))
  ELSE LET slot == self.cv_stack_len
       IN [self |-> [self EXCEPT
                       !.cv_stack = IF slot < BLAKE3_MAX_DEPTH
                                    THEN [k \in (DOMAIN @) \cup {slot} |->
                                            IF k = slot THEN new_cv ELSE @[k]]
                                    ELSE @,
                       !.cv_stack_len = (@ + 1) % 256],
           call |-> [pop_lens |-> pop_lens, slot |-> slot]]

\* The hasher after add_chunk_cv, with a record of the call: total_chunks as
\* passed, cv_stack_len at each pop, and the slot index the value was written at.
add_chunk_cv(self, new_cv, total_chunks, unwritten) ==
  Then(new_cv, LAMBDA cv :
  Then(add_chunk_cv_loop(self, cv, total_chunks, unwritten, <<>>), LAMBDA r :
    [self |-> r.self,
     call |-> [total_chunks |-> total_chunks, pop_lens |-> r.call.pop_lens,
               slot |-> r.call.slot]]))

EmptyStack == [k \in {} |-> blake3_IV]

\* the hasher blake3_hasher_init leaves in a fresh blake3_hasher
blake3_hasher_init ==
  [key |-> blake3_IV, chunk |-> chunk_state_init(blake3_IV, 0), cv_stack_len |-> 0,
   cv_stack |-> EmptyStack]

\* One iteration of the while loop of blake3_hasher_update, on values already
\* computed: the hasher after it, the input that is left, and calls extended
\* by the add_chunk_cv call if the iteration made one.
HasherStep(self, input, unwritten, calls) ==
  Then(IF self.chunk.buf_len = BLAKE3_BLOCK_LEN
          /\ self.chunk.blocks_compressed = (BLAKE3_CHUNK_LEN \div BLAKE3_BLOCK_LEN) - 1
       THEN LET chunk_cv == chunk_state_output(self.chunk)
                chunk_cv_words == BytesToWords8(chunk_cv)
            IN Then(add_chunk_cv(self, chunk_cv_words,
                                 self.chunk.chunk_counter + 1, unwritten), LAMBDA a :
                 [self |-> [a.self EXCEPT
                              !.chunk = [chunk_state_init(a.self.key, a.self.chunk.flags)
                                           EXCEPT !.chunk_counter = @ + 1]],
                  calls |-> Append(calls, a.call)])
       ELSE [self |-> self, calls |-> calls], LAMBDA r1 :
    LET want == BLAKE3_CHUNK_LEN
                  - (r1.self.chunk.blocks_compressed * BLAKE3_BLOCK_LEN + r1.self.chunk.buf_len)
        take == IF Len(input) < want THEN Len(input) ELSE want
    IN [self |-> [r1.self EXCEPT
                    !.chunk = chunk_state_update(r1.self.chunk, SubSeq(input, 1, take))],
        rest |-> SubSeq(input, take + 1, Len(input)),
        calls |-> r1.calls])

\* while (input_len > 0) { ... } on values already computed
RECURSIVE HasherLoop(_, _, _, _)
HasherLoop(self, input, unwritten, calls) ==
  IF Len(input) = 0 THEN [self |-> self, calls |-> calls]
  ELSE Then(HasherStep(self, input, unwritten, calls),
            LAMBDA r : HasherLoop(r.self, r.rest, unwritten, r.calls))

\* The hasher after blake3_hasher_update(self, input, Len(input)), and calls
\* extended by the add_chunk_cv calls it made.
blake3_hasher_update(self, input, unwritten, calls) ==
  Then(<<self, input, calls>>, LAMBDA p : HasherLoop(p[1], p[2], unwritten, p[3]))

\* for (i = cv_stack_len; i > 0; i--) parent_nodes = parent_cv(stack[i-1] ++ parent_nodes)
RECURSIVE FinalizeParents(_, _, _, _)
FinalizeParents(self, parent_nodes, i, unwritten) ==
  IF i = 0 THEN parent_nodes
  ELSE Then(parent_cv(StackBytes(self, i - 1, unwritten) \o WordsToBytes(parent_nodes),
                      self.key, self.chunk.flags),
            LAMBDA cv : FinalizeParents(self, cv, i - 1, unwritten))

\* The block the root compressions read: (uint8_t*)parent_nodes is 32 bytes
\* long and blake3_compress_xof reads block[0..63], so the last 32 bytes are
\* whatever follows parent_nodes in memory.
RootBlock(parent_nodes, beyond) == WordsToBytes(parent_nodes) \o beyond

\* for (counter = 1; out_len > 64; counter++) { 64 more bytes; out_len -= 64 }
RECURSIVE FinalizeMore(_, _, _, _, _, _)
FinalizeMore(parent_nodes, beyond, flags, output_block_counter, out_len, written) ==
  IF out_len > 64
  THEN LET wide_buf == blake3_compress_xof(parent_nodes, RootBlock(parent_nodes, beyond), 32,
                                           output_block_counter, Or8(flags, ROOT))
           this_block_len == IF out_len > 64 THEN 64 ELSE out_len
       IN Then(written \o SubSeq(wide_buf, 1, this_block_len),
               LAMBDA w : FinalizeMore(parent_nodes, beyond, flags, output_block_counter + 1,
                                       out_len - this_block_len, w))
  ELSE written

\* The bytes blake3_hasher_finalize(self, out, out_len) writes, in the order of
\* their offsets from out (the writes are contiguous from offset 0).
blake3_hasher_finalize(self, out_len, beyond) ==
  Then(self, LAMBDA s :
  Then(BytesToWords8(chunk_state_output(s.chunk)), LAMBDA chunk_cv_words :
  Then(FinalizeParents(s, chunk_cv_words, s.cv_stack_len, beyond), LAMBDA parent_nodes :
  Then(blake3_compress_xof(parent_nodes, RootBlock(parent_nodes, beyond), 32, 0,
                           Or8(s.chunk.flags, ROOT)), LAMBDA wide_buf :
  Then(SubSeq(wide_buf, 1, IF out_len < 64 THEN out_len ELSE 64), LAMBDA first :
    IF out_len > 64
    THEN FinalizeMore(parent_nodes, beyond, s.chunk.flags, 1, out_len, first)
    ELSE first)))))

(***************************************************************************)
(* BLAKE2b (blake2b.h, blake2b.c)                                          *)
(* A 64-bit word is four 16-bit limbs, least significant first.            *)
(***************************************************************************)
Xor64(x, y) == <<Xor16(x[1], y[1]), Xor16(x[2], y[2]), Xor16(x[3], y[3]), Xor16(x[4], y[4])>>

\* uint64_t + uint64_t, wrapping at 2^64
Add64(x, y) ==
  LET s1 == x[1] + y[1]
      s2 == x[2] + y[2] + (s1 \div 65536)
      s3 == x[3] + y[3] + (s2 \div 65536)
      s4 == x[4] + y[4] + (s3 \div 65536)
  IN <<s1 % 65536, s2 % 65536, s3 % 65536, s4 % 65536>>

\* uint64_t < uint64_t
Lt64(x, y) ==
  \/ x[4] < y[4]
  \/ x[4] = y[4] /\ x[3] < y[3]
  \/ x[4] = y[4] /\ x[3] = y[3] /\ x[2] < y[2]
  \/ x[4] = y[4] /\ x[3] = y[3] /\ x[2] = y[2] /\ x[1] < y[1]

\* a size_t below 2^31 as a uint64_t
W64(n) == <<n % 65536, (n \div 65536) % 65536, 0, 0>>

Zero64 == <<0, 0, 0, 0>>

\* (uint64_t)-1
AllOnes64 == <<65535, 65535, 65535, 65535>>

\* the word whose eight bytes are block[off+1 .. off+8], least significant first
Load64(block, off) ==
  <<block[off + 1] + 256 * block[off + 2], block[off + 3] + 256 * block[off + 4],
    block[off + 5] + 256 * block[off + 6], block[off + 7] + 256 * block[off + 8]>>

\* the eight bytes store64 writes
store64(w) ==
  <<w[1] % 256, w[1] \div 256, w[2] % 256, w[2] \div 256,
    w[3] % 256, w[3] \div 256, w[4] % 256, w[4] \div 256>>

blake2b_IV ==
  <<
    <<51464, 62396, 58983, 27145>>,
    <<42811, 33994, 44677, 47975>>,
    <<63531, 65172, 62322, 15470>>,
    <<14065, 24349, 62778, 42319>>,
    <<33489, 44518, 21119, 20750>>,
    <<27679, 11070, 26764, 39685>>,
    <<48491, 64321, 55723, 8067>>,
    <<8569, 4990, 52505, 23520>>
  >>

blake2b_sigma ==
  <<
    <<0, 1, 2, 3, 4, 5, 6, 7, 8, 9, 10, 11, 12, 13, 14, 15>>,
    <<14, 10, 4, 8, 9, 15, 13, 6, 1, 12, 0, 2, 11, 7, 5, 3>>,
    <<11, 8, 12, 0, 5, 2, 15, 13, 10, 14, 3, 6, 7, 1, 9, 4>>,
    <<7, 9, 3, 1, 13, 12, 11, 14, 2, 6, 5, 10, 4, 0, 15, 8>>,
    <<9, 0, 5, 7, 2, 4, 10, 15, 14, 1, 11, 12, 6, 8, 3, 13>>,
    <<2, 12, 6, 10, 0, 11, 8, 3, 4, 13, 7, 5, 15, 14, 1, 9>>,
    <<12, 5, 1, 15, 14, 13, 4, 10, 0, 7, 6, 3, 9, 2, 8, 11>>,
    <<13, 11, 7, 14, 12, 1, 3, 9, 5, 0, 15, 4, 8, 6, 2, 10>>,
    <<6, 15, 14, 9, 11, 3, 0, 8, 12, 2, 13, 7, 1, 4, 10, 5>>,
    <<10, 2, 8, 4, 7, 6, 1, 5, 15, 11, 9, 14, 3, 12, 13, 0>>,
    <<0, 1, 2, 3, 4, 5, 6, 7, 8, 9, 10, 11, 12, 13, 14, 15>>,
    <<14, 10, 4, 8, 9, 15, 13, 6, 1, 12, 0, 2, 11, 7, 5, 3>>
  >>

rotr64(w, c) ==
  Then(w, LAMBDA x :
    LET q == c \div 16
        r == c % 16
        p == Pow2(r)
        m == Pow2(16 - r)
        limb(i) == ((x[((i - 1 + q) % 4) + 1] \div p) + (x[((i + q) % 4) + 1] % p) * m) % 65536
    IN <<limb(1), limb(2), limb(3), limb(4)>>)

\* G(r, i, v[a], v[b], v[c], v[d]); a, b, c, d are the C indices 0..15; one
\* Then per statement of the macro
G(v, m, r, i, a, b, c, d) ==
  Then(Add64(v[a + 1], v[b + 1]), LAMBDA a0 :
  Then(Add64(a0, m[blake2b_sigma[r + 1][2 * i + 1] + 1]), LAMBDA a1 :
  Then(rotr64(Xor64(v[d + 1], a1), 32), LAMBDA d1 :
  Then(Add64(v[c + 1], d1), LAMBDA c1 :
  Then(rotr64(Xor64(v[b + 1], c1), 24), LAMBDA b1 :
  Then(Add64(a1, b1), LAMBDA a3 :
  Then(Add64(a3, m[blake2b_sigma[r + 1][2 * i + 2] + 1]), LAMBDA a2 :
  Then(rotr64(Xor64(d1, a2), 16), LAMBDA d2 :
  Then(Add64(c1, d2), LAMBDA c2 :
  Then(rotr64(Xor64(b1, c2), 63), LAMBDA b2v :
    [v EXCEPT ![a + 1] = a2, ![b + 1] = b2v, ![c + 1] = c2, ![d + 1] = d2]))))))))))

\* one iteration of the round loop, on values already computed
Round2(v, m, r) ==
  Then(G(v, m, r, 0, 0, 4, 8, 12), LAMBDA v1 :
  Then(G(v1, m, r, 1, 1, 5, 9, 13), LAMBDA v2 :
  Then(G(v2, m, r, 2, 2, 6, 10, 14), LAMBDA v3 :
  Then(G(v3, m, r, 3, 3, 7, 11, 15), LAMBDA v4 :
  Then(G(v4, m, r, 4, 0, 5, 10, 15), LAMBDA v5 :
  Then(G(v5, m, r, 5, 1, 6, 11, 12), LAMBDA v6 :
  Then(G(v6, m, r, 6, 2, 7, 8, 13), LAMBDA v7 :
    G(v7, m, r, 7, 3, 4, 9, 14))))))))

\* for (i = 0; i < 12; ++i) { ... }
RECURSIVE Rounds2(_, _, _)
Rounds2(v, m, r) ==
  IF r = 12 THEN v
  ELSE Then(Round2(v, m, r), LAMBDA w : Rounds2(w, m, r + 1))

\* S after blake2b_compress(S, block); block is 128 bytes
blake2b_compress(S, block) ==
  Then(S, LAMBDA S0 :
  Then(block, LAMBDA bl :
  Then([i \in 1..16 |-> Load64(bl, 8 * (i - 1))], LAMBDA m :
  Then(<<S0.h[1], S0.h[2], S0.h[3], S0.h[4], S0.h[5], S0.h[6], S0.h[7], S0.h[8],
         blake2b_IV[1], blake2b_IV[2], blake2b_IV[3], blake2b_IV[4],
         Xor64(blake2b_IV[5], S0.t[1]), Xor64(blake2b_IV[6], S0.t[2]),
         Xor64(blake2b_IV[7], S0.f[1]), Xor64(blake2b_IV[8], S0.f[2])>>, LAMBDA v :
  Then(Rounds2(v, m, 0), LAMBDA w :
    [S0 EXCEPT !.h = [i \in 1..8 |-> Xor64(Xor64(S0.h[i], w[i]), w[i + 8])]])))))

\* memset(S, 0, sizeof(blake2b_state))
ZeroState2 ==
  [h |-> [i \in 1..8 |-> Zero64], t |-> <<Zero64, Zero64>>, f |-> <<Zero64, Zero64>>,
   buf |-> Zeros(128), buflen |-> 0, outlen |-> 0, last_node |-> 0]

\* blake2b_init with the memset moved in front of the length test
blake2b_init_clear_first(S, outlen) ==
  IF outlen = 0 \/ outlen > 64 THEN [ret |-> -1, S |-> ZeroState2]
  ELSE [ret |-> 0, S |-> [ZeroState2 EXCEPT !.h = blake2b_IV, !.outlen = outlen]]

\* return value and state of blake2b_init(S, outlen)
blake2b_init(S, outlen) ==
  IF outlen = 0 \/ outlen > 64 THEN [ret |-> -1, S |-> S]
  ELSE [ret |-> 0, S |-> [ZeroState2 EXCEPT !.h = blake2b_IV, !.outlen = outlen]]

\* the counter advanced in its low word only, the < test left out
AddCounter_no_carry(t, n) == <<Add64(t[1], W64(n)), t[2]>>

\* S->t[0] += n; if (S->t[0] < n) S->t[1]++;
AddCounter(t, n) ==
  Then(Add64(t[1], W64(n)), LAMBDA t0 :
    <<t0, IF Lt64(t0, W64(n)) THEN Add64(t[2], W64(1)) ELSE t[2]>>)

\* while (inlen > 128) { count, compress the next 128 input bytes }, on values
\* already computed
RECURSIVE UpdateLoop2(_, _)
UpdateLoop2(S, input) ==
  IF Len(input) > 128
  THEN Then(blake2b_compress([S EXCEPT !.t = AddCounter(@, 128)], SubSeq(input, 1, 128)),
            LAMBDA S1 :
       Then(SubSeq(input, 129, Len(input)), LAMBDA rest : UpdateLoop2(S1, rest)))
  ELSE [S |-> S, input |-> input]

\* the state after the body of blake2b_update, on values already computed
UpdateBody2(S, in) ==
  Then(IF S.buflen + Len(in) > 128
       THEN LET fill == 128 - S.buflen
            IN Then([S EXCEPT !.buf = SubSeq(@, 1, S.buflen) \o SubSeq(in, 1, fill),
                              !.t = AddCounter(@, 128)], LAMBDA S1 :
               Then([blake2b_compress(S1, S1.buf) EXCEPT !.buflen = 0], LAMBDA S2 :
               Then(SubSeq(in, fill + 1, Len(in)), LAMBDA rest : UpdateLoop2(S2, rest))))
       ELSE [S |-> S, input |-> in], LAMBDA r :
    IF Len(r.input) > 0
    THEN [r.S EXCEPT !.buf = SubSeq(@, 1, r.S.buflen) \o r.input
                               \o SubSeq(@, r.S.buflen + Len(r.input) + 1, 128),
                     !.buflen = @ + Len(r.input)]
    ELSE r.S)

\* return value and state of blake2b_update(S, in, Len(in))
blake2b_update(S, in) ==
  Then(S, LAMBDA S0 : Then(in, LAMBDA input : [ret |-> 0, S |-> UpdateBody2(S0, input)]))

\* the state after the if (S->buflen > 0) { ... } of blake2b_final
FinalBlock2(S) ==
  IF S.buflen > 0
  THEN Then([S EXCEPT !.buf = IF S.buflen < 128
                               THEN SubSeq(S.buf, 1, S.buflen) \o Zeros(128 - S.buflen)
                               ELSE S.buf,
                      !.t = AddCounter(@, S.buflen),
                      !.f = <<AllOnes64, @[2]>>], LAMBDA S0 : blake2b_compress(S0, S0.buf))
  ELSE S

\* the 64 bytes of buffer in blake2b_final: store64 of h[0..7]
DigestBuffer2(S) ==
  store64(S.h[1]) \o store64(S.h[2]) \o store64(S.h[3]) \o store64(S.h[4])
    \o store64(S.h[5]) \o store64(S.h[6]) \o store64(S.h[7]) \o store64(S.h[8])

\* blake2b_final with the last-block flag set in front of the length test
blake2b_final_flag_first(S, outlen) ==
  Then(S, LAMBDA S0 :
    IF S0.outlen # outlen
    THEN [ret |-> -1, S |-> [S0 EXCEPT !.f = <<AllOnes64, @[2]>>],
          written |-> FALSE, out |-> <<>>]
    ELSE Then(FinalBlock2(S0), LAMBDA S2 :
           [ret |-> 0, S |-> S2, written |-> TRUE,
            out |-> SubSeq(DigestBuffer2(S2), 1, S2.outlen)]))

\* return value, state and the bytes written to out of blake2b_final(S, out, outlen);
\* written is FALSE when the call writes nothing
blake2b_final(S, outlen) ==
  Then(S, LAMBDA S0 :
    IF S0.outlen # outlen
    THEN [ret |-> -1, S |-> S0, written |-> FALSE, out |-> <<>>]
    ELSE Then(FinalBlock2(S0), LAMBDA S2 :
           [ret |-> 0, S |-> S2, written |-> TRUE,
            out |-> SubSeq(DigestBuffer2(S2), 1, S2.outlen)]))

(***************************************************************************)
(* Batch matching (detective_core.c)                                       *)
(* A pointer is <<>> when it is NULL and <<x>> when it points to x.  A C   *)
(* string is the sequence of its bytes before the terminating 0.           *)
(***************************************************************************)
NULL == <<>>

Ptr(x) == <<x>>

Deref(p) == p[1]

\* the byte at s[i - 1] of a C string, the terminator included
CharAt(s, i) == IF i <= Len(s) THEN s[i] ELSE 0

\* strcmp from byte i on: negative, zero or positive
RECURSIVE strcmp_from(_, _, _)
strcmp_from(a, b, i) ==
  LET ca == CharAt(a, i)
      cb == CharAt(b, i)
  IN IF ca # cb THEN (IF ca < cb THEN -1 ELSE 1)
     ELSE IF ca = 0 THEN 0
     ELSE strcmp_from(a, b, i + 1)

strcmp(a, b) == strcmp_from(a, b, 1)

\* hash_compare looking at the first byte of each text only
hash_compare_first_byte(hash1, hash2) ==
  IF hash1 = NULL \/ hash2 = NULL THEN 1
  ELSE IF CharAt(Deref(hash1), 1) = CharAt(Deref(hash2), 1) THEN 0 ELSE 1

\* 0 = equal, 1 = different
hash_compare(hash1, hash2) ==
  IF hash1 = NULL \/ hash2 = NULL THEN 1
  ELSE IF strcmp(Deref(hash1), Deref(hash2)) = 0 THEN 0 ELSE 1

\* for (i = 0; i < db_count; i++) if (...) temp_matches[count++] = i;
RECURSIVE CompareScan(_, _, _, _, _)
CompareScan(target_hash, db, db_count, i, temp_matches) ==
  IF i < db_count
  THEN CompareScan(target_hash, db, db_count, i + 1,
                   IF db[i + 1] # NULL /\ hash_compare(target_hash, db[i + 1]) = 0
                   THEN Append(temp_matches, i)
                   ELSE temp_matches)
  ELSE temp_matches

\* What batch_compare_hash returns (ret: NULL or a pointer to the index array)
\* and what it leaves in *match_count (written = FALSE: nothing stored).
\* has_match_count: match_count is not NULL; malloc_ok, realloc_ok: whether the
\* two allocations succeed.
batch_compare_hash(target_hash, db_hashes, db_count, has_match_count, malloc_ok, realloc_ok) ==
  IF target_hash = NULL \/ db_hashes = NULL \/ db_count <= 0 \/ ~has_match_count
  THEN [ret |-> NULL, written |-> has_match_count, match_count |-> 0]
  ELSE IF ~malloc_ok
  THEN [ret |-> NULL, written |-> TRUE, match_count |-> 0]
  ELSE LET temp_matches == CompareScan(target_hash, Deref(db_hashes), db_count, 0, <<>>)
           count == Len(temp_matches)
       IN IF count = 0
          THEN [ret |-> NULL, written |-> TRUE, match_count |-> count]
          ELSE IF ~realloc_ok
          THEN [ret |-> Ptr(temp_matches), written |-> TRUE, match_count |-> count]
          ELSE [ret |-> Ptr(temp_matches), written |-> TRUE, match_count |-> count]

(***************************************************************************)
(* Similarity search (detective_core.c)                                    *)
(* A double is kept as the exact fraction <<numerator, denominator>>.  The *)
(* model calls the search with hash lengths whose bit count is a power of  *)
(* two and with thresholds that are multiples of 1/16, so every quotient   *)
(* and difference the code forms is a dyadic fraction a double holds       *)
(* exactly, and the fraction is the double.                                *)
(***************************************************************************)
\* while (byte) { count += byte & 1; byte >>= 1; }
RECURSIVE count_bits(_)
count_bits(byte) == IF byte = 0 THEN 0 ELSE (byte % 2) + count_bits(byte \div 2)

\* for (i = 0; i < len; i++) distance += count_bits(hash1[i] ^ hash2[i])
RECURSIVE DistanceLoop(_, _, _, _)
DistanceLoop(hash1, hash2, len, i) ==
  IF i < len
  THEN count_bits(Xor8[hash1[i + 1]][hash2[i + 1]]) + DistanceLoop(hash1, hash2, len, i + 1)
  ELSE 0

\* number of differing bits in the first len bytes, -1 for a NULL argument
hash_hamming_distance(hash1, hash2, len) ==
  IF hash1 = NULL \/ hash2 = NULL THEN -1
  ELSE DistanceLoop(Deref(hash1), Deref(hash2), len, 0)

\* the comparison of the scan made strict
GeqD_strict(x, y) == x[1] * y[2] > y[1] * x[2]

\* double >= double
GeqD(x, y) == x[1] * y[2] >= y[1] * x[2]

\* double > double
GtD(x, y) == x[1] * y[2] > y[1] * x[2]

\* 1.0 - ((double)distance / total_bits)
Similarity(distance, total_bits) == <<total_bits - distance, total_bits>>

\* the scan: for (i = 0; i < db_count; i++) { ... temp[count++] = {i, similarity} }
RECURSIVE SimilarityScan(_, _, _, _, _, _, _)
SimilarityScan(target_hash, hash_len, db, db_count, threshold, i, temp) ==
  IF i < db_count
  THEN Then(IF db[i + 1] = NULL THEN temp
            ELSE LET distance == hash_hamming_distance(target_hash, db[i + 1], hash_len)
                     similarity == Similarity(distance, hash_len * 8)
                 IN IF distance < 0 THEN temp
                    ELSE IF GeqD(similarity, threshold)
                    THEN Append(temp, [index |-> i, similarity |-> similarity])
                    ELSE temp,
            LAMBDA t : SimilarityScan(target_hash, hash_len, db, db_count, threshold, i + 1, t))
  ELSE temp

\* for (j = ...; j < count; j++) if (temp[j].similarity > temp[max_idx].similarity) max_idx = j;
\* i, j and max_idx are the C indices
RECURSIVE MaxIdxLoop(_, _, _)
MaxIdxLoop(temp, j, max_idx) ==
  IF j < Len(temp)
  THEN MaxIdxLoop(temp, j + 1,
                  IF GtD(temp[j + 1].similarity, temp[max_idx + 1].similarity)
                  THEN j ELSE max_idx)
  ELSE max_idx

\* the sort with a swap that stores temp[max_idx] in temp[i] and leaves
\* temp[max_idx] as it is
RECURSIVE SelectionSort_half_swap(_, _)
SelectionSort_half_swap(temp, i) ==
  IF i < Len(temp) - 1
  THEN Then(MaxIdxLoop(temp, i + 1, i), LAMBDA max_idx :
       Then(IF max_idx # i
            THEN [temp EXCEPT ![i + 1] = temp[max_idx + 1]]
            ELSE temp, LAMBDA t : SelectionSort_half_swap(t, i + 1)))
  ELSE temp

\* for (i = ...; i < count - 1; i++) { find max_idx; swap temp[i] and temp[max_idx] }
RECURSIVE SelectionSort(_, _)
SelectionSort(temp, i) ==
  IF i < Len(temp) - 1
  THEN Then(MaxIdxLoop(temp, i + 1, i), LAMBDA max_idx :
       Then(IF max_idx # i
            THEN [temp EXCEPT ![i + 1] = temp[max_idx + 1], ![max_idx + 1] = temp[i + 1]]
            ELSE temp, LAMBDA t : SelectionSort(t, i + 1)))
  ELSE temp

\* What batch_similarity_search returns (ret: NULL or a pointer to the result
\* array), what it leaves in *result_count (written = FALSE: nothing stored),
\* and the pairs its scan collected, in scan order.  has_result_count:
\* result_count is not NULL; malloc_ok: the allocation of temp succeeds.  The
\* final realloc hands back the same array whether it succeeds or fails.
batch_similarity_search(target_hash, hash_len, db_hashes, db_count, threshold, has_result_count, malloc_ok) ==
  IF target_hash = NULL \/ db_hashes = NULL \/ db_count <= 0 \/ ~has_result_count
       \/ hash_len = 0
  THEN [ret |-> NULL, written |-> has_result_count, result_count |-> 0, collected |-> <<>>]
  ELSE IF ~malloc_ok
  THEN [ret |-> NULL, written |-> TRUE, result_count |-> 0, collected |-> <<>>]
  ELSE Then(SimilarityScan(target_hash, hash_len, Deref(db_hashes), db_count, threshold,
                           0, <<>>), LAMBDA temp :
         IF Len(temp) = 0
         THEN [ret |-> NULL, written |-> TRUE, result_count |-> 0, collected |-> temp]
         ELSE [ret |-> Ptr(SelectionSort(temp, 0)), written |-> TRUE,
               result_count |-> Len(temp), collected |-> temp])

(***************************************************************************)
(* State                                                                   *)
(***************************************************************************)
VARIABLES
  b3,        \* the blake3_hasher
  b3_phase,  \* "updating", "finalized", or "crashed" once a write outside an
             \* object has brought the process down
  b3_pat,    \* which input stream this hasher is fed
  b3_fed,    \* number of input bytes fed to b3 since its init
  b3_calls,  \* the add_chunk_cv calls made since init, oldest first
  b3_out,    \* requested length, bytes written and the 32 bytes found past
             \* parent_nodes, of the last blake3_hasher_finalize call
  b2,        \* the blake2b_state S
  b2_phase,  \* "raw" (never initialised), "live", "finalized"
  b2_fed,    \* number of input bytes fed to S since its init
  b2_finals, \* successful blake2b_final calls since its init
  b2_call,   \* the last BLAKE2b call: <<function, length argument>>
  b2_ret,    \* its return value
  b2_out,    \* the out buffer of this run: the bytes blake2b_final has written
  db,        \* the caller's array of candidate hashes: each NULL or a text
  bc,        \* the last batch_compare_hash call: arguments and results
  sdb,       \* the caller's array of binary candidate hashes: each NULL or 2 bytes
  ss         \* the last batch_similarity_search call: arguments and results

vars3 == <<b3, b3_phase, b3_pat, b3_fed, b3_calls, b3_out>>
vars2 == <<b2, b2_phase, b2_fed, b2_finals, b2_call, b2_ret, b2_out>>
varsB == <<db, bc>>
varsS == <<sdb, ss>>
vars == <<vars3, vars2, varsB, varsS>>

(***************************************************************************)
(* Inputs                                                                  *)
(***************************************************************************)
\* lengths of the pieces handed to blake3_hasher_update
PieceLens3 == {0, 1000, 1024, 1049}

\* output lengths asked of blake3_hasher_finalize
OutLens3 == {0, 32, 64, 100}

Patterns == {0, 1}

\* byte p (from 0) of input stream pat
InputByte(pat, p) == IF pat = 0 THEN p % 251 ELSE 255 - (p % 7)

\* bytes from .. from + len - 1 of input stream pat
InputBytes(pat, from, len) == [k \in 1..len |-> InputByte(pat, from + k - 1)]

\* What a read outside an object, or of bytes never written, can yield: 32
\* bytes of memory the hasher does not own.
Beyond == {[k \in 1..32 |-> 0], [k \in 1..32 |-> 165]}

NoOut == [len |-> 0, bytes |-> <<>>, beyond |-> <<>>]

\* output lengths handed to blake2b_init and blake2b_final
OutLens2 == {0, 1, 32, 64, 65}

\* lengths of the pieces handed to blake2b_update
PieceLens2 == {0, 100, 128, 129}

\* a blake2b_state nobody has initialised: every byte 0xA5
Raw2 ==
  [h |-> [i \in 1..8 |-> <<42405, 42405, 42405, 42405>>],
   t |-> <<(<<42405, 42405, 42405, 42405>>), (<<42405, 42405, 42405, 42405>>)>>,
   f |-> <<(<<42405, 42405, 42405, 42405>>), (<<42405, 42405, 42405, 42405>>)>>,
   buf |-> [k \in 1..128 |-> 165], buflen |-> 165, outlen |-> 165, last_node |-> 165]

\* texts of the batch layer: "", "a", "ab"
Texts == {<<>>, <<97>>, <<97, 98>>}

NoCall == [target_hash |-> NULL, db_null |-> TRUE, db_count |-> 0, called |-> FALSE,
           has_match_count |-> FALSE, malloc_ok |-> TRUE,
           ret |-> NULL, written |-> FALSE, match_count |-> 0]

\* binary hashes of the similarity search, 2 bytes each
Hashes == {<<1, 0>>, <<2, 1>>}

\* the target handed to batch_similarity_search
TargetHash == <<1, 0>>

\* hash_len arguments: 0, and the lengths with 8 and 16 bits
HashLens == {0, 1, 2}

\* threshold arguments: 0.0, 0.75 and 1.0
Thresholds == {<<0, 16>>, <<12, 16>>, <<16, 16>>}

NoSearch == [target_null |-> TRUE, hash_len |-> 0, db_null |-> TRUE, db_count |-> 0,
             threshold |-> <<0, 16>>, called |-> FALSE, has_result_count |-> FALSE,
             malloc_ok |-> TRUE, ret |-> NULL, written |-> FALSE, result_count |-> 0,
             collected |-> <<>>]

(***************************************************************************)
(* Initial state                                                           *)
(***************************************************************************)
Init ==
  /\ b3 = blake3_hasher_init
  /\ b3_phase = "updating"
  /\ b3_pat = 0
  /\ b3_fed = 0
  /\ b3_calls = <<>>
  /\ b3_out = NoOut
  /\ b2 = Raw2
  /\ b2_phase = "raw"
  /\ b2_fed = 0
  /\ b2_finals = 0
  /\ b2_call = <<"none", 0>>
  /\ b2_ret = 0
  /\ b2_out = <<>>
  /\ db = <<>>
  /\ bc = NoCall
  /\ sdb = <<>>
  /\ ss = NoSearch

(***************************************************************************)
(* Actions of the tree hasher                                              *)
(***************************************************************************)
\* blake3_hasher_init on a fresh hasher: a new run
Blake3Init ==
  /\ b3' = blake3_hasher_init
  /\ b3_phase' = "updating"
  /\ b3_pat' \in Patterns
  /\ b3_fed' = 0
  /\ b3_calls' = <<>>
  /\ b3_out' = NoOut
  /\ UNCHANGED <<vars2, varsB, varsS>>

\* an add_chunk_cv call that wrote outside the cv_stack array, or whose
\* parent_cv calls wrote past cv_bytes
WroteOutside(call) == call.slot >= BLAKE3_MAX_DEPTH \/ call.pop_lens # <<>>

\* blake3_hasher_update(&b3, input, len) with the next len bytes of the stream
Blake3Update ==
  /\ b3_phase = "updating"
  /\ \E len \in PieceLens3, unwritten \in Beyond :
       /\ b3_fed + len <= MaxFed3
       /\ \E r \in {blake3_hasher_update(b3, InputBytes(b3_pat, b3_fed, len), unwritten, <<>>)} :
             \/ /\ b3' = r.self
                /\ b3_fed' = b3_fed + len
                /\ b3_calls' = b3_calls \o r.calls
                /\ UNCHANGED <<b3_phase, b3_pat, b3_out>>
             \/ /\ \E i \in DOMAIN r.calls : WroteOutside(r.calls[i])
                /\ b3_phase' = "crashed"
                /\ UNCHANGED <<b3, b3_pat, b3_fed, b3_calls, b3_out>>
  /\ UNCHANGED <<vars2, varsB, varsS>>

\* blake3_hasher_finalize(&b3, out, out_len) into a buffer of out_len bytes
Blake3Finalize ==
  /\ b3_phase \in {"updating", "finalized"}
  /\ \E out_len \in OutLens3, beyond \in Beyond :
       \E bytes \in {blake3_hasher_finalize(b3, out_len, beyond)} :
          \/ /\ b3_out' = [len |-> out_len, bytes |-> bytes, beyond |-> beyond]
             /\ b3_phase' = "finalized"
             /\ UNCHANGED <<b3, b3_pat, b3_fed, b3_calls>>
          \/ /\ Len(bytes) > out_len \/ b3.cv_stack_len > 0
             /\ b3_phase' = "crashed"
             /\ UNCHANGED <<b3, b3_pat, b3_fed, b3_calls, b3_out>>
  /\ UNCHANGED <<vars2, varsB, varsS>>

Next == Blake3Init \/ Blake3Update \/ Blake3Finalize

Spec == Init /\ [][Next]_vars

(***************************************************************************)
(* Actions of the sequential hash                                          *)
(***************************************************************************)
\* blake2b_init(&S, outlen)
Blake2bInit ==
  /\ \E outlen \in OutLens2 :
       \E r \in {blake2b_init(b2, outlen)} :
          /\ b2' = r.S
          /\ b2_ret' = r.ret
          /\ b2_call' = <<"init", outlen>>
          /\ IF r.ret = 0
             THEN b2_phase' = "live" /\ b2_fed' = 0 /\ b2_finals' = 0 /\ b2_out' = <<>>
             ELSE UNCHANGED <<b2_phase, b2_fed, b2_finals, b2_out>>
  /\ UNCHANGED <<vars3, varsB, varsS>>

\* blake2b_update(&S, in, len) with the next len bytes of input stream 0
Blake2bUpdate ==
  /\ b2_phase \in {"live", "finalized"}
  /\ \E len \in PieceLens2 :
       /\ b2_fed + len <= MaxFed2
       /\ \E r \in {blake2b_update(b2, InputBytes(0, b2_fed, len))} :
             /\ b2' = r.S
             /\ b2_ret' = r.ret
             /\ b2_call' = <<"update", len>>
             /\ b2_fed' = b2_fed + len
  /\ UNCHANGED <<b2_phase, b2_finals, b2_out, vars3, varsB, varsS>>

\* blake2b_final(&S, out, outlen)
Blake2bFinal ==
  /\ b2_phase \in {"live", "finalized"}
  /\ b2_finals < MaxFinals2
  /\ \E outlen \in OutLens2 :
       \E r \in {blake2b_final(b2, outlen)} :
          /\ b2' = r.S
          /\ b2_ret' = r.ret
          /\ b2_call' = <<"final", outlen>>
          /\ b2_out' = IF r.written THEN r.out ELSE b2_out
          /\ IF r.ret = 0
             THEN b2_phase' = "finalized" /\ b2_finals' = b2_finals + 1
             ELSE UNCHANGED <<b2_phase, b2_finals>>
  /\ UNCHANGED <<b2_fed, vars3, varsB, varsS>>

NextB2 == Blake2bInit \/ Blake2bUpdate \/ Blake2bFinal

SpecB2 == Init /\ [][NextB2]_vars

(***************************************************************************)
(* Actions of the batch layer                                              *)
(***************************************************************************)
\* the caller appends one candidate to its array
DbAppend ==
  /\ Len(db) < MaxDb
  /\ \E c \in {NULL} \cup {Ptr(t) : t \in Texts} : db' = Append(db, c)
  /\ UNCHANGED <<bc, vars3, vars2, varsS>>

\* batch_compare_hash(target_hash, db_hashes, db_count, &match_count), where
\* db_hashes is NULL or the caller's array and db_count its length, 0 or -1
BatchCompareHash ==
  /\ \E target_hash \in {NULL} \cup {Ptr(t) : t \in Texts},
        db_hashes \in {NULL, Ptr(db)}, db_count \in {-1, 0, Len(db)},
        has_match_count \in BOOLEAN, malloc_ok \in BOOLEAN, realloc_ok \in BOOLEAN :
       \E r \in {batch_compare_hash(target_hash, db_hashes, db_count, has_match_count,
                                     malloc_ok, realloc_ok)} :
          bc' = [target_hash |-> target_hash, db_null |-> db_hashes = NULL,
                 db_count |-> db_count, called |-> TRUE,
                 has_match_count |-> has_match_count, malloc_ok |-> malloc_ok,
                 ret |-> r.ret, written |-> r.written, match_count |-> r.match_count]
  /\ UNCHANGED <<db, vars3, vars2, varsS>>

NextBatch == DbAppend \/ BatchCompareHash

SpecBatch == Init /\ [][NextBatch]_vars

(***************************************************************************)
(* Actions of the similarity search                                        *)
(***************************************************************************)
\* the caller appends one binary candidate to its array
SdbAppend ==
  /\ Len(sdb) < MaxDb
  /\ \E c \in {NULL} \cup {Ptr(h) : h \in Hashes} : sdb' = Append(sdb, c)
  /\ UNCHANGED <<ss, vars3, vars2, varsB>>

\* batch_similarity_search(target_hash, hash_len, db_hashes, db_count, threshold,
\* &result_count), where db_hashes is NULL or the caller's array and db_count
\* its length (0 while the array is empty)
BatchSimilaritySearch ==
  /\ \E target_hash \in {NULL, Ptr(TargetHash)}, hash_len \in HashLens,
        db_hashes \in {NULL, Ptr(sdb)}, db_count \in {Len(sdb)},
        threshold \in Thresholds, has_result_count \in BOOLEAN, malloc_ok \in BOOLEAN :
       \E r \in {batch_similarity_search(target_hash, hash_len, db_hashes, db_count,
                                         threshold, has_result_count, malloc_ok)} :
          ss' = [target_null |-> target_hash = NULL, hash_len |-> hash_len,
                 db_null |-> db_hashes = NULL, db_count |-> db_count,
                 threshold |-> threshold, called |-> TRUE,
                 has_result_count |-> has_result_count, malloc_ok |-> malloc_ok,
                 ret |-> r.ret, written |-> r.written, result_count |-> r.result_count,
                 collected |-> r.collected]
  /\ UNCHANGED <<sdb, vars3, vars2, varsB>>

NextSim == SdbAppend \/ BatchSimilaritySearch

SpecSim == Init /\ [][NextSim]_vars

(***************************************************************************)
(* Properties of the tree hasher (specification Spec)                      *)
(***************************************************************************)
\* the hasher after one blake3_hasher_update call with the first n bytes of
\* input stream pat
WholeUpdate(pat, n, unwritten) ==
  blake3_hasher_update(blake3_hasher_init, InputBytes(pat, 0, n), unwritten, <<>>).self

\* C1: however the bytes fed so far were cut into pieces, the hasher is in the
\* state one update call with the whole sequence leaves, and the bytes finalize
\* wrote are the bytes finalize writes after that one call.
C1_StreamingInvariance ==
  b3_phase # "crashed" =>
    \A unwritten \in Beyond :
      LET whole == WholeUpdate(b3_pat, b3_fed, unwritten)
      IN /\ b3 = whole
         /\ b3_phase = "finalized" =>
              \A beyond \in Beyond :
                b3_out.bytes = blake3_hasher_finalize(whole, b3_out.len, beyond)

\* C2: after init and any sequence of update calls cv_stack_len is at most
\* BLAKE3_MAX_DEPTH and every add_chunk_cv call pushed at a slot in 0..53.
C2_StackWithinBounds ==
  /\ b3.cv_stack_len <= BLAKE3_MAX_DEPTH
  /\ \A i \in DOMAIN b3_calls : b3_calls[i].slot \in 0..(BLAKE3_MAX_DEPTH - 1)

\* number of 1 bits of n
RECURSIVE PopCount(_)
PopCount(n) == IF n = 0 THEN 0 ELSE (n % 2) + PopCount(n \div 2)

\* C3: when c chunks have been completed and handed to add_chunk_cv, the stack
\* holds one entry per 1 bit of c.
C3_StackIsPopCount ==
  b3_phase # "crashed" => b3.cv_stack_len = PopCount(Len(b3_calls))

\* C4: a finalize call asked for L bytes writes bytes 0..L-1 and no byte at an
\* offset >= L.
C4_WritesExactlyL ==
  b3_phase = "finalized" => Len(b3_out.bytes) = b3_out.len

\* C5: of two finalize calls in a row on the same hasher state, the second
\* asking for at least as many bytes as the first, the bytes of the first are
\* the leading bytes of the second.
C5_PrefixConsistency ==
  [][(/\ b3_phase = "finalized" /\ b3_phase' = "finalized"
      /\ b3' = b3
      /\ b3_out.len <= b3_out'.len)
     => \A k \in 1..b3_out.len : b3_out'.bytes[k] = b3_out.bytes[k]]_vars

\* C6: the bytes finalize wrote are a function of the hasher state and the
\* requested length: whatever lies in memory outside the state and the input,
\* a finalize call on this state with this length writes the same bytes.
C6_Deterministic ==
  b3_phase = "finalized" =>
    \A beyond \in Beyond : b3_out.bytes = blake3_hasher_finalize(b3, b3_out.len, beyond)

(***************************************************************************)
(* Properties of the sequential hash (specification SpecB2)                *)
(***************************************************************************)
\* C7: blake2b_init with outlen 0 or above 64 returns an error and leaves S as
\* it was; with outlen in 1..64 it returns 0 and leaves h = IV, both counter
\* words and both flags 0, the buffer all zero and empty, and outlen stored.
C7_InitContract ==
  [][b2_call'[1] = "init" =>
       LET outlen == b2_call'[2]
       IN IF outlen = 0 \/ outlen > 64
          THEN b2_ret' # 0 /\ b2' = b2
          ELSE /\ b2_ret' = 0
               /\ b2'.h = blake2b_IV
               /\ b2'.t = <<Zero64, Zero64>>
               /\ b2'.f = <<Zero64, Zero64>>
               /\ b2'.buf = Zeros(128)
               /\ b2'.buflen = 0
               /\ b2'.outlen = outlen]_vars

\* a rejected blake2b_init on a state that holds buffered input
C7_Witness ==
  b2_call = <<"init", 65>> /\ b2_ret = -1 /\ b2_phase = "live" /\ b2.buflen > 0

\* C8: blake2b_final with a length other than the one given to blake2b_init
\* returns an error, writes nothing to out and leaves the whole state as it
\* was, so the digest a final call with the right length then gives is the
\* one it would have given before the rejected call.
C8_FinalLengthMismatch ==
  [][(b2_call'[1] = "final" /\ b2_call'[2] # b2.outlen) =>
       /\ b2_ret' # 0
       /\ b2_out' = b2_out
       /\ b2' = b2
       /\ blake2b_final(b2', b2.outlen).out = blake2b_final(b2, b2.outlen).out]_vars

\* a rejected blake2b_final on a live state that holds buffered input
C8_Witness ==
  /\ b2_call[1] = "final" /\ b2_call[2] # b2.outlen /\ b2_ret = -1
  /\ b2_phase = "live" /\ b2.buflen > 0 /\ b2_out = <<>>

\* C9: a blake2b_update call on a state whose last init was followed by a
\* successful blake2b_final returns an error and leaves the chaining words,
\* the counter and the buffer as they were.
C9_UpdateAfterFinalRejected ==
  [][(b2_phase = "finalized" /\ b2_call'[1] = "update") =>
       /\ b2_ret' # 0
       /\ b2'.h = b2.h /\ b2'.t = b2.t /\ b2'.buf = b2.buf]_vars

(***************************************************************************)
(* Properties of the batch layer (specification SpecBatch)                 *)
(***************************************************************************)
\* the indices the last batch_compare_hash call handed back, in order
Returned == IF bc.ret = NULL THEN <<>> ELSE Deref(bc.ret)

\* the indices of the candidates that are present and equal to the target
Matching ==
  {i \in 0..(bc.db_count - 1) : db[i + 1] # NULL /\ Deref(db[i + 1]) = Deref(bc.target_hash)}

\* the call handed back the matching indices, each once, ascending, and stored
\* their number in *match_count
ExactResult ==
  /\ {Returned[k] : k \in DOMAIN Returned} = Matching
  /\ \A j, k \in DOMAIN Returned : j < k => Returned[j] < Returned[k]
  /\ bc.written /\ bc.match_count = Cardinality(Matching)
  /\ Len(Returned) = bc.match_count

\* the last call had a non-empty target, db_count > 0 candidates and a place
\* for the count
ComparedCall ==
  /\ bc.called /\ bc.has_match_count
  /\ bc.target_hash # NULL /\ Deref(bc.target_hash) # <<>>
  /\ ~bc.db_null /\ bc.db_count > 0

\* C10 as stated: for a non-empty target and db_count > 0 candidates,
\* batch_compare_hash returns exactly the indices of the present candidates
\* equal to the target, ascending, and match_count is their number.
C10_ExactIndices == ComparedCall => ExactResult

\* C10 amended: the same, when the allocation of the temporary index array
\* succeeds; when it fails the call returns NULL and stores 0.
C10_ExactIndicesWhenAllocated ==
  ComparedCall =>
    IF bc.malloc_ok THEN ExactResult
    ELSE bc.ret = NULL /\ bc.written /\ bc.match_count = 0

\* a call that reported the target at indices 0 and 2, with another text between
C10_Witness ==
  /\ ComparedCall /\ bc.malloc_ok
  /\ Returned = <<0, 2>> /\ bc.match_count = 2
  /\ db[2] # NULL /\ Deref(db[2]) # Deref(bc.target_hash)
  /\ CharAt(Deref(db[2]), 1) = CharAt(Deref(bc.target_hash), 1)

\* C11: a batch_compare_hash call whose target is the zero-length text hands
\* back the no-results signal, NULL with 0 in *match_count, whatever the
\* candidates are.
C11_EmptyTargetNoResults ==
  (bc.called /\ bc.target_hash # NULL /\ Deref(bc.target_hash) = <<>>) =>
    /\ bc.ret = NULL
    /\ bc.has_match_count => (bc.written /\ bc.match_count = 0)

(***************************************************************************)
(* Properties of the similarity search (specification SpecSim)             *)
(***************************************************************************)
\* the pairs the last batch_similarity_search call handed back, in order
Found == IF ss.ret = NULL THEN <<>> ELSE Deref(ss.ret)

\* bit b (0 = least significant) of byte x
Bit(x, b) == (x \div Pow2(b)) % 2

\* the number of bit positions in which candidate i differs from the target
\* over the first ss.hash_len bytes
DifferingBits(i) ==
  Cardinality({pos \in (1..ss.hash_len) \X (0..7) :
                 Bit(Deref(sdb[i + 1])[pos[1]], pos[2]) # Bit(TargetHash[pos[1]], pos[2])})

\* candidate i is present and 1 - d_i/(8N) >= threshold
Qualifies(i) ==
  /\ sdb[i + 1] # NULL
  /\ (8 * ss.hash_len - DifferingBits(i)) * ss.threshold[2] >= ss.threshold[1] * 8 * ss.hash_len

\* the last call had a target, db_count > 0 candidates, a hash length N > 0
\* and a place for the count
SearchedCall ==
  /\ ss.called /\ ss.has_result_count
  /\ ~ss.target_null /\ ~ss.db_null /\ ss.db_count > 0 /\ ss.hash_len > 0

\* the call handed back one pair for each qualifying candidate and no other,
\* each with the score 1 - d_i/(8N), and stored their number in *result_count
ThresholdResult ==
  /\ {Found[k].index : k \in DOMAIN Found} = {i \in 0..(ss.db_count - 1) : Qualifies(i)}
  /\ \A j, k \in DOMAIN Found : Found[j].index = Found[k].index => j = k
  /\ \A k \in DOMAIN Found :
       Found[k].similarity[1] * 8 * ss.hash_len
         = (8 * ss.hash_len - DifferingBits(Found[k].index)) * Found[k].similarity[2]
  /\ ss.written /\ ss.result_count = Len(Found)

\* C12 as stated: batch_similarity_search with N > 0 returns a pair for
\* candidate i exactly when it is present and 1 - d_i/(8N) >= threshold, the
\* pair holds that score, each index appears once and result_count is the
\* number of pairs.
C12_ThresholdPairs == SearchedCall => ThresholdResult

\* C12 amended: the same, when the allocation of the temporary array
\* succeeds; when it fails the call returns NULL and stores 0.
C12_ThresholdPairsWhenAllocated ==
  SearchedCall =>
    IF ss.malloc_ok THEN ThresholdResult
    ELSE ss.ret = NULL /\ ss.written /\ ss.result_count = 0

\* a call that returned a candidate whose similarity is below 1 and equal to
\* the threshold
C12_Witness ==
  /\ SearchedCall /\ ss.malloc_ok
  /\ \E k \in DOMAIN Found :
       /\ Found[k].similarity[1] * ss.threshold[2] = ss.threshold[1] * Found[k].similarity[2]
       /\ DifferingBits(Found[k].index) > 0

\* C13: the returned array is ordered by similarity descending and holds
\* exactly the pairs the scan collected, each as often as the scan collected it.
C13_SortedPermutation ==
  ss.called =>
    /\ \A p, q \in DOMAIN Found :
         p < q => Found[p].similarity[1] * Found[q].similarity[2]
                    >= Found[q].similarity[1] * Found[p].similarity[2]
    /\ Len(Found) = Len(ss.collected)
    /\ \A k \in DOMAIN ss.collected :
         Cardinality({j \in DOMAIN Found : Found[j] = ss.collected[k]})
           = Cardinality({j \in DOMAIN ss.collected : ss.collected[j] = ss.collected[k]})

\* a call whose sort moved pairs: three pairs returned, not in scan order
C13_Witness ==
  ss.called /\ Len(Found) = 3 /\ Found # ss.collected

\* C14: of two returned pairs with the same similarity, the one with the
\* smaller candidate index comes first.
C14_StableTieBreak ==
  ss.called =>
    \A p, q \in DOMAIN Found :
      (p < q /\ Found[p].similarity = Found[q].similarity)
        => Found[p].index < Found[q].index

(***************************************************************************)
(* Properties of the sequential hash between init and final                *)
(***************************************************************************)
\* 2^64 - 128, the last multiple of 128 a 64-bit word holds
LastBlockCount == <<65408, 65535, 65535, 65535>>

\* C15: after a successful blake2b_init and any blake2b_update calls, buflen
\* is at most 128 and the counter t[1]:t[0] is a multiple of 128, namely 128
\* for each compression update performed (the bytes fed less the bytes still
\* buffered); the addition of 128 carries into t[1] when t[0] wraps past 2^64.
C15_BufferAndCounter ==
  b2_phase = "live" =>
    /\ b2.buflen \in 0..128
    /\ b2.t[1] = W64(b2_fed - b2.buflen)
    /\ b2.t[1][1] % 128 = 0
    /\ b2.t[2] = Zero64
    /\ AddCounter(<<LastBlockCount, b2.t[2]>>, 128) = <<Zero64, W64(1)>>
    /\ AddCounter(<<b2.t[1], b2.t[2]>>, 128) = <<W64(b2_fed - b2.buflen + 128), b2.t[2]>>

\* update has compressed one block and holds a full block in the buffer
C15_Witness ==
  b2_phase = "live" /\ b2.t[1] = W64(128) /\ b2.buflen = 128 /\ b2_fed = 256

(***************************************************************************)
(* Properties of the tree hasher's active chunk                            *)
(***************************************************************************)
\* the bytes of the stream fed so far that belong to the active chunk: a
\* chunk is closed only when input arrives after its 1024th byte
InActiveChunk == IF b3_fed = 0 THEN 0 ELSE ((b3_fed - 1) % BLAKE3_CHUNK_LEN) + 1

\* C16: after init and any blake3_hasher_update calls the active chunk has
\* blocks_compressed in 0..15 and buf_len in 0..64, and 64 * blocks_compressed
\* + buf_len is the number of bytes fed into that chunk, at most 1024.
C16_ChunkWithinBounds ==
  b3_phase \in {"updating", "finalized"} =>
    /\ b3.chunk.blocks_compressed \in 0..15
    /\ b3.chunk.buf_len \in 0..BLAKE3_BLOCK_LEN
    /\ BLAKE3_BLOCK_LEN * b3.chunk.blocks_compressed + b3.chunk.buf_len = InActiveChunk
    /\ InActiveChunk <= BLAKE3_CHUNK_LEN

\* a second chunk filled to its last byte after the first one was closed
C16_Witness ==
  /\ b3_phase = "updating" /\ b3_fed = 2 * BLAKE3_CHUNK_LEN
  /\ b3.chunk.blocks_compressed = 15 /\ b3.chunk.buf_len = BLAKE3_BLOCK_LEN

(***************************************************************************)
(* Properties of blake2b_final                                             *)
(***************************************************************************)
\* C17: every successful blake2b_final has run the final compression with the
\* finalization flag f[0] set to all-ones, whatever the total input length,
\* zero included.
C17_FinalAlwaysCompresses ==
  (b2_call[1] = "final" /\ b2_ret = 0) => b2.f[1] = AllOnes64

(***************************************************************************)
(* Properties of blake3_hasher_finalize and of the chunk boundary          *)
(***************************************************************************)
\* the 64 bytes of the compression of the active chunk's last block with the
\* chunk-end and root flags both set, chunk counter 0
LastBlockAsRoot ==
  blake3_compress_xof(b3.chunk.cv, b3.chunk.buf, b3.chunk.buf_len, 0,
                      Or8(Or8(Or8(b3.chunk.flags,
                                  IF b3.chunk.blocks_compressed = 0 THEN CHUNK_START ELSE 0),
                              CHUNK_END), ROOT))

\* C18: when at most 1024 bytes were fed (stack empty at finalize), the
\* output is the extended output of the compression of the chunk's last block
\* itself, with chunk-end and root flags on that one compression, and no
\* further compression of its chaining value.
C18_SingleChunkFastPath ==
  (b3_phase = "finalized" /\ b3_fed <= BLAKE3_CHUNK_LEN /\ b3.cv_stack_len = 0) =>
    \E n \in {IF b3_out.len < 64 THEN b3_out.len ELSE 64} :
      SubSeq(b3_out.bytes, 1, n) = SubSeq(LastBlockAsRoot, 1, n)

\* C19: the active chunk's chunk_counter is the number of chunks
\* blake3_hasher_update has completed, and the i-th add_chunk_cv call was
\* passed total_chunks = i.
C19_CounterCountsChunks ==
  b3_phase \in {"updating", "finalized"} =>
    /\ b3.chunk.chunk_counter = Len(b3_calls)
    /\ \A i \in DOMAIN b3_calls : b3_calls[i].total_chunks = i

\* C20: every iteration of the merge loop of every add_chunk_cv call made by
\* blake3_hasher_update started with cv_stack_len >= 1.
C20_NeverPopsEmptyStack ==
  \A i \in DOMAIN b3_calls :
    \A j \in DOMAIN b3_calls[i].pop_lens : b3_calls[i].pop_lens[j] >= 1

\* the flags chunk_state_output compresses the active chunk's last block with
LastBlockFlags ==
  Or8(Or8(b3.chunk.flags, IF b3.chunk.blocks_compressed = 0 THEN CHUNK_START ELSE 0),
      CHUNK_END)

\* C21: for the same chaining value, block, block length, counter and flags,
\* the first 8 output words of blake3_compress_xof are the chaining value
\* blake3_compress_in_place produces (state[i] XOR state[i + 8]); taken here
\* on the active chunk's last block, the call chunk_state_output makes.
C21_XofHeadIsChainingValue ==
  b3_phase \in {"updating", "finalized"} =>
    BytesToWords8(blake3_compress_xof(b3.chunk.cv, b3.chunk.buf, b3.chunk.buf_len,
                                      b3.chunk.chunk_counter, LastBlockFlags))
      = blake3_compress_in_place(b3.chunk.cv, b3.chunk.buf, b3.chunk.buf_len,
                                 b3.chunk.chunk_counter, LastBlockFlags)

====
